---- MODULE Spec2Model ----
(***************************************************************************)
(* A model of pprof4svc (go-the-way/pprof4svc): a Gin plugin that mounts   *)
(* the Go runtime's profiling, memory, GC and execution-trace endpoints    *)
(* under a random path prefix, behind a token-gated entrypoint.            *)
(*                                                                         *)
(* Strings that the code inspects character by character (durations,      *)
(* query values, paths) are sequences of one-character strings.            *)
(***************************************************************************)
EXTENDS Integers, Sequences, FiniteSets, TLC

(***************************************************************************)
(* Bounds of the model.                                                    *)
(***************************************************************************)
\* Handler goroutines that serve requests concurrently.
NumThreads == 3
\* Plugin instances constructed in the process.
NumPlugins == 2
\* Longest `dur` value enumerated exhaustively over DurAlphabet.
MaxDurLen == 3

Threads == 1..NumThreads
Plugins == 1..NumPlugins

(***************************************************************************)
(* Unsigned integers.  A uint64 (a byte count, the nanoseconds of a        *)
(* duration) is held as its bits, the least significant first and the most *)
(* significant one set; zero is <<>>.  A float64 is [m, e], the number     *)
(* m * 2^e with m of at most 53 significant bits.                          *)
(***************************************************************************)
UintBits == 64

MantissaBits == 53

\* Bit i of x, counted from 1 at the low end.
Bit(x, i) == IF i <= Len(x) THEN x[i] ELSE 0

\* x without its leading zero bits
Norm(x) ==
  LET set == {i \in 1..Len(x) : x[i] = 1}
  IN  IF set = {} THEN <<>>
      ELSE SubSeq(x, 1, CHOOSE i \in set : \A j \in set : j <= i)

\* The bits of a number below 2^31.
Bits(n) == Norm([i \in 1..31 |-> (n \div 2^(i - 1)) % 2])

\* The number that the 12 lowest bits of x hold.
IntOf(x) ==
  Bit(x, 1) + 2 * Bit(x, 2) + 4 * Bit(x, 3) + 8 * Bit(x, 4) + 16 * Bit(x, 5) + 32 * Bit(x, 6)
  + 64 * Bit(x, 7) + 128 * Bit(x, 8) + 256 * Bit(x, 9) + 512 * Bit(x, 10) + 1024 * Bit(x, 11)
  + 2048 * Bit(x, 12)

\* x < y
Less(x, y) ==
  \/ Len(x) < Len(y)
  \/ /\ Len(x) = Len(y)
     /\ \E i \in 1..Len(x) : x[i] < y[i] /\ \A j \in (i + 1)..Len(x) : x[j] = y[j]

\* x + 1: the lowest zero bit is set and the ones below it are cleared.
Inc(x) ==
  LET clear == {i \in 1..(Len(x) + 1) : Bit(x, i) = 0}
      p     == CHOOSE i \in clear : \A j \in clear : i <= j
  IN  [i \in 1..(IF p > Len(x) THEN p ELSE Len(x)) |->
         IF i < p THEN 0 ELSE IF i = p THEN 1 ELSE x[i]]

\* The carry into bit i of x + y: some lower bit generates one and every bit
\* between passes it on.
Carry(x, y, i) ==
  \E j \in 1..(i - 1) :
    /\ Bit(x, j) = 1 /\ Bit(y, j) = 1
    /\ \A k \in (j + 1)..(i - 1) : Bit(x, k) + Bit(y, k) >= 1

Add(x, y) ==
  LET n == (IF Len(x) > Len(y) THEN Len(x) ELSE Len(y)) + 1
  IN  Norm([i \in 1..n |-> (Bit(x, i) + Bit(y, i) + (IF Carry(x, y, i) THEN 1 ELSE 0)) % 2])

\* x * 2^n
Shl(x, n) == IF x = <<>> THEN <<>> ELSE [i \in 1..n |-> 0] \o x

\* x \div 2^n
Shr(x, n) == IF n >= Len(x) THEN <<>> ELSE SubSeq(x, n + 1, Len(x))

\* x modulo 2^64: the arithmetic of a uint64 wraps.
Wrap(x) == IF Len(x) > UintBits THEN Norm(SubSeq(x, 1, UintBits)) ELSE x

\* The borrow into bit i of x - y: some lower bit takes one and every bit
\* between passes it on.
Borrow(x, y, i) ==
  \E j \in 1..(i - 1) :
    /\ Bit(x, j) < Bit(y, j)
    /\ \A k \in (j + 1)..(i - 1) : Bit(x, k) <= Bit(y, k)

\* x - y for x >= y
Sub(x, y) ==
  Norm([i \in 1..Len(x) |-> (2 + Bit(x, i) - Bit(y, i) - (IF Borrow(x, y, i) THEN 1 ELSE 0)) % 2])

\* The number of ones in column k of the long multiplication of x by y.
Column(x, y, k) ==
  Cardinality({i \in 1..Len(x) : /\ x[i] = 1
                                /\ k + 1 - i \in 1..Len(y)
                                /\ y[k + 1 - i] = 1})

\* x * y for factors of which one is below 2^127: the columns of the long
\* multiplication are counted, and the seven numbers that the bits of the
\* counts make are added up.
Mul(x, y) ==
  LET cols     == [k \in 1..(Len(x) + Len(y)) |-> Column(x, y, k)]
      plane(b) == Shl(Norm([k \in 1..(Len(x) + Len(y)) |-> (cols[k] \div 2^b) % 2]), b)
  IN  Add(Add(Add(plane(0), plane(1)), Add(plane(2), plane(3))),
          Add(Add(plane(4), plane(5)), plane(6)))

\* x * 10 = x * 8 + x * 2
Times10(x) == Add(Shl(x, 3), Shl(x, 1))

\* x * 100 = x * 64 + x * 32 + x * 4
Times100(x) == Add(Add(Shl(x, 6), Shl(x, 5)), Shl(x, 2))

RECURSIVE Div10(_, _, _)
\* Long division by ten of the i lowest bits of x, 12 bits at a time from the
\* top, rem carried in: the quotient, of i bits, and the remainder.
Div10(x, i, rem) ==
  IF i = 0 THEN [q |-> <<>>, r |-> rem]
  ELSE LET lo   == ((i - 1) \div 12) * 12
           cur  == rem * 2^(i - lo) + IntOf(SubSeq(x, lo + 1, i))
           rest == Div10(x, lo, cur % 10)
       IN  [q |-> rest.q \o [k \in 1..(i - lo) |-> ((cur \div 10) \div 2^(k - 1)) % 2],
            r |-> rest.r]

\* x \div 10
Tenth(x) == Norm(Div10(x, Len(x), 0).q)

\* One step of the long division by y: bit is brought down to the remainder
\* and y is taken off when it fits.
Step(st, bit, y) ==
  LET cur  == IF st.r = <<>> /\ bit = 0 THEN <<>> ELSE <<bit>> \o st.r
      fits == ~Less(cur, y)
  IN  [q |-> <<IF fits THEN 1 ELSE 0>> \o st.q, r |-> IF fits THEN Sub(cur, y) ELSE cur]

RECURSIVE Div(_, _, _, _)
\* Long division by y of the i lowest bits of x, from the top, after the
\* higher bits gave the quotient st.q and the remainder st.r.  Nothing is
\* left to take off once the remainder and the bits to bring down are zero.
Div(x, i, y, st) ==
  IF i = 0 THEN st
  ELSE IF st.r = <<>> /\ \A k \in 1..i : x[k] = 0
  THEN [q |-> [k \in 1..i |-> 0] \o st.q, r |-> <<>>]
  ELSE IF i >= 4
  THEN Div(x, i - 4, y, Step(Step(Step(Step(st, x[i], y), x[i - 1], y), x[i - 2], y), x[i - 3], y))
  ELSE Div(x, i - 1, y, Step(st, x[i], y))

\* The quotient without its leading zero bits.
Quotient(d) == [q |-> Norm(d.q), r |-> d.r]

\* x \div y and x % y for y # 0: the bits of x above the lowest
\* Len(x) - Len(y) + 1 are less than y and begin as the remainder.
DivMod(x, y) ==
  IF Len(x) < Len(y) THEN [q |-> <<>>, r |-> x]
  ELSE LET n == Len(x) - Len(y) + 1
       IN  Quotient(Div(x, n, y, [q |-> <<>>, r |-> Norm(SubSeq(x, n + 1, Len(x)))]))

\* The float64 nearest to x * 2^e, ties to the even mantissa: the conversion
\* of an integer to float64, and the rounding of every float64 operation.
float64(x, e) ==
  LET d == Len(x) - MantissaBits
  IN  IF d <= 0 THEN [m |-> x, e |-> e]
      ELSE LET kept   == Shr(x, d)
               guard  == x[d]
               sticky == \E i \in 1..(d - 1) : x[i] = 1
               up     == guard = 1 /\ (sticky \/ kept[1] = 1)
           IN  [m |-> IF up THEN Inc(kept) ELSE kept, e |-> e + d]

\* uint64(value): the integer part of a float64 that is not negative.
Trunc(value) ==
  IF value.e >= 0 THEN Shl(value.m, value.e) ELSE Shr(value.m, 0 - value.e)

\* 1<<63
Pow63 == Shl(<<1>>, 63)

\* 1<<63 - 1
MaxInt64 == [i \in 1..63 |-> 1]

(***************************************************************************)
(* Durations.  time.Duration is an int64 count of nanoseconds, kept as its *)
(* sign and its magnitude.                                                 *)
(***************************************************************************)
Giga == 1000000000

Dur(neg, ns) == [neg |-> neg /\ ns # <<>>, ns |-> ns]

DurZero == Dur(FALSE, <<>>)

\* time.Second * n
Seconds(n) == Dur(FALSE, Mul(Bits(n), Bits(Giga)))

IsZeroDur(d) == d.ns = <<>>

IsPositiveDur(d) == ~d.neg /\ ~IsZeroDur(d)

(***************************************************************************)
(* time.ParseDuration, as trace0 calls it: an optional sign, then one or   *)
(* more groups of digits, an optional fraction and a unit.                 *)
(* On every error it returns the zero duration.                            *)
(***************************************************************************)
Digits == <<"0","1","2","3","4","5","6","7","8","9">>

IsDigit(c) == \E i \in 1..10 : Digits[i] = c

DigitVal(c) == (CHOOSE i \in 1..10 : Digits[i] = c) - 1

RECURSIVE leadingInt(_, _)
\* leadingInt(s, x): consume the leading digits; the value read so far is x.
\* An error once x is over 1<<63/10 before a digit or over 1<<63 after it.
leadingInt(s, x) ==
  IF s # <<>> /\ IsDigit(Head(s))
  THEN IF Less(Tenth(Pow63), x) THEN [ok |-> FALSE, x |-> <<>>, rem |-> <<>>]
       ELSE LET y == Add(Times10(x), Bits(DigitVal(Head(s))))
            IN  IF Less(Pow63, y) THEN [ok |-> FALSE, x |-> <<>>, rem |-> <<>>]
                ELSE leadingInt(Tail(s), y)
  ELSE [ok |-> TRUE, x |-> x, rem |-> s]

RECURSIVE leadingFraction(_, _, _)
\* leadingFraction(s, fr, overflow): consume the leading digits; the value
\* read so far is fr.x over fr.scale.  Once x would pass 1<<63 the digits are
\* consumed and dropped.  scale is a float64, ten times larger with every
\* digit kept.
leadingFraction(s, fr, overflow) ==
  IF s # <<>> /\ IsDigit(Head(s))
  THEN IF overflow THEN leadingFraction(Tail(s), fr, TRUE)
       ELSE IF Less(Tenth(MaxInt64), fr.x) THEN leadingFraction(Tail(s), fr, TRUE)
       ELSE LET y == Add(Times10(fr.x), Bits(DigitVal(Head(s))))
            IN  IF Less(Pow63, y) THEN leadingFraction(Tail(s), fr, TRUE)
                ELSE leadingFraction(Tail(s),
                                     [x |-> y, scale |-> float64(Times10(fr.scale.m), fr.scale.e)],
                                     FALSE)
  ELSE [x |-> fr.x, scale |-> fr.scale, rem |-> s]

RECURSIVE unitLen(_)
\* The length of the unit at the head of s: up to the next '.' or digit.
unitLen(s) ==
  IF s = <<>> \/ Head(s) = "." \/ IsDigit(Head(s)) THEN 0 ELSE 1 + unitLen(Tail(s))

\* The units of package time, in nanoseconds.
Nanosecond == Bits(1)

Microsecond == Bits(1000)

Millisecond == Bits(1000000)

Second == Bits(Giga)

Minute == Mul(Second, Bits(60))

Hour == Mul(Minute, Bits(60))

\* unitMap: the nanoseconds of a unit.  The micro sign (U+00B5) and the
\* Greek mu (U+03BC) are one character each.
unitMap(u) ==
  CASE u = <<"n","s">> -> [ok |-> TRUE, ns |-> Nanosecond]
    [] u = <<"u","s">> -> [ok |-> TRUE, ns |-> Microsecond]
    [] u = <<"µ","s">> -> [ok |-> TRUE, ns |-> Microsecond]
    [] u = <<"μ","s">> -> [ok |-> TRUE, ns |-> Microsecond]
    [] u = <<"m","s">> -> [ok |-> TRUE, ns |-> Millisecond]
    [] u = <<"s">>     -> [ok |-> TRUE, ns |-> Second]
    [] u = <<"m">>     -> [ok |-> TRUE, ns |-> Minute]
    [] u = <<"h">>     -> [ok |-> TRUE, ns |-> Hour]
    [] OTHER           -> [ok |-> FALSE, ns |-> <<>>]

\* The float64 nearest to the quotient d.q * 2^e of a division that left the
\* remainder d.r: whether anything is left over is one more bit below d.q.
Rounded(d, e) == float64(<<IF d.r # <<>> THEN 1 ELSE 0>> \o d.q, e - 1)

\* float64(unit) / scale, rounded once: the quotient of the mantissas is
\* taken to 55 bits or more, two more than a float64 keeps.
UnitOverScale(unit, scale) ==
  LET u     == float64(unit, 0)
      shift == Len(scale.m) + 55 - Len(u.m)
  IN  Rounded(DivMod(Shl(u.m, shift), scale.m), u.e - scale.e - shift)

\* a * b in float64
Product(a, b) == float64(Mul(a.m, b.m), a.e + b.e)

\* uint64(float64(f) * (float64(unit) / scale)): the nanoseconds of the
\* fraction, each float64 operation rounded, the product truncated.
FracUnit(f, scale, unit) == Trunc(Product(float64(f, 0), UnitOverScale(unit, scale)))

ParseError == [ok |-> FALSE, d |-> DurZero]

(***************************************************************************)
(* The loop `for s != ""` of ParseDuration, one definition for each stretch *)
(* of its body, the last first.  d is the sum of the groups read, a uint64. *)
(***************************************************************************)
RECURSIVE parseGroups(_, _)

\* if d > 1<<63 ...: an error, else the next group.
sumGroup(sum, rest) ==
  IF Less(Pow63, sum) THEN ParseError ELSE parseGroups(rest, sum)

\* if v > 1<<63 ...; d += v
addGroup(d, v, rest) ==
  IF Less(Pow63, v) THEN ParseError ELSE sumGroup(Wrap(Add(d, v)), rest)

\* if v > 1<<63/unit ...: an error when prod = v * unit is over 1<<63;
\* if f > 0 { v += ... }
scaleGroup(d, prod, f, scale, unit, rest) ==
  IF Less(Pow63, prod) THEN ParseError
  ELSE addGroup(d, IF f # <<>> THEN Wrap(Add(prod, FracUnit(f, scale, unit))) ELSE prod, rest)

\* unit, ok := unitMap[u]
lookupGroup(d, v, f, scale, unit, rest) ==
  IF ~unit.ok THEN ParseError ELSE scaleGroup(d, Mul(v, unit.ns), f, scale, unit.ns, rest)

\* The unit is the n characters of s up to the next '.' or digit.
unitGroup(d, v, f, scale, s, n) ==
  IF n = 0 THEN ParseError
  ELSE lookupGroup(d, v, f, scale, unitMap(SubSeq(s, 1, n)), SubSeq(s, n + 1, Len(s)))

\* if !pre && !post ...: no digits (that is, ".")
afterFraction(d, v, pre, pl, fr) ==
  IF ~pre /\ pl = Len(fr.rem) THEN ParseError
  ELSE unitGroup(d, v, fr.x, fr.scale, fr.rem, unitLen(fr.rem))

\* The fraction, when a '.' follows the integer.
fractionGroup(d, v, pre, s) ==
  IF s # <<>> /\ Head(s) = "."
  THEN afterFraction(d, v, pre, Len(s) - 1,
                     leadingFraction(Tail(s), [x |-> <<>>, scale |-> float64(<<1>>, 0)], FALSE))
  ELSE IF ~pre THEN ParseError
  ELSE unitGroup(d, v, <<>>, float64(<<1>>, 0), s, unitLen(s))

\* v, s, err = leadingInt(s); pre := pl != len(s)
intGroup(d, s, i) ==
  IF ~i.ok THEN ParseError ELSE fractionGroup(d, i.x, Len(i.rem) # Len(s), i.rem)

\* The next character must be [0-9.]
parseGroups(s, d) ==
  IF s = <<>> THEN [ok |-> TRUE, d |-> d]
  ELSE IF ~(Head(s) = "." \/ IsDigit(Head(s))) THEN ParseError
  ELSE intGroup(d, s, leadingInt(s, <<>>))

\* The end of ParseDuration: the sign, and the range of a positive result.
signedDuration(neg, r) ==
  IF ~r.ok THEN ParseError
  ELSE IF neg THEN [ok |-> TRUE, d |-> Dur(TRUE, r.d)]
  ELSE IF Less(MaxInt64, r.d) THEN ParseError
  ELSE [ok |-> TRUE, d |-> Dur(FALSE, r.d)]

ParseDuration(str) ==
  LET signed == str # <<>> /\ Head(str) \in {"-", "+"}
      neg    == signed /\ Head(str) = "-"
      s      == IF signed THEN Tail(str) ELSE str
  IN  IF s = <<"0">> THEN [ok |-> TRUE, d |-> DurZero]
      ELSE IF s = <<>> THEN ParseError
      ELSE signedDuration(neg, parseGroups(s, <<>>))

(***************************************************************************)
(* trace0's capture window: the `dur` query value, "10s" when empty, parsed *)
(* with the error dropped, and ten seconds when the result is zero.        *)
(***************************************************************************)
\* The value of a query parameter: params is a set of <<key, value>> pairs
\* with at most one pair per key.
GetQuery(params, key) ==
  IF \E kv \in params : kv[1] = key
  THEN [v |-> (CHOOSE kv \in params : kv[1] = key)[2], ok |-> TRUE]
  ELSE [v |-> <<>>, ok |-> FALSE]

Query(params, key) == GetQuery(params, key).v

\* trace0 without the fallback of a zero duration to ten seconds.
Dur0NoFallback(params) ==
  LET q == Query(params, "dur")
  IN  ParseDuration(IF q = <<>> THEN <<"1","0","s">> ELSE q).d

\* if dur0 == 0 { dur0 = time.Second * 10 }
OrTenSeconds(dur0) == IF IsZeroDur(dur0) THEN Seconds(10) ELSE dur0

Dur0(params) ==
  LET q       == Query(params, "dur")
      dur0str == IF q = <<>> THEN <<"1","0","s">> ELSE q
  IN  OrTenSeconds(ParseDuration(dur0str).d)

(***************************************************************************)
(* Responses: status, Content-Type, Content-Disposition, Location and the  *)
(* body.  An absent Content-Type is "", an absent Content-Disposition or   *)
(* Location is the empty sequence.                                         *)
(* A body the runtime produces is a one-element sequence naming it.        *)
(***************************************************************************)
Response(status, ctype, disp, location, body) ==
  [status |-> status, ctype |-> ctype, disp |-> disp, location |-> location, body |-> body]

TextPlain == "text/plain; charset=utf-8"

TextHTML == "text/html; charset=utf-8"

OctetStream == "application/octet-stream"

\* gin's ctx.String
String(status, body) == Response(status, TextPlain, <<>>, <<>>, body)

\* gin's ctx.JSON
JSON(status, body) == Response(status, "application/json; charset=utf-8", <<>>, <<>>, body)

\* gin's ctx.Redirect: the Location header, and an HTML body linking to it.
Redirect(status, location) ==
  Response(status, TextHTML, <<>>, location, <<"<a href=">> \o location)

\* serveError: text/plain, with any Content-Disposition deleted; fmt.Fprintln
\* writes txt and a newline.
serveError(status, txt) == Response(status, TextPlain, <<>>, <<>>, txt \o <<"\n">>)

(***************************************************************************)
(* The plugin and its routes.                                              *)
(***************************************************************************)
pprofIndexRoute == <<"/","d","e","b","u","g","/","p","p","r","o","f","/">>

pprofNameRoute == <<"/","d","e","b","u","g","/","p","p","r","o","f","/",":","n","a","m","e">>

pprofCmdlineRoute == <<"/","d","e","b","u","g","/","p","p","r","o","f","/","c","m","d","l","i","n","e">>

pprofProfileRoute == <<"/","d","e","b","u","g","/","p","p","r","o","f","/","p","r","o","f","i","l","e">>

pprofSymbolRoute == <<"/","d","e","b","u","g","/","p","p","r","o","f","/","s","y","m","b","o","l">>

pprofTraceRoute == <<"/","d","e","b","u","g","/","p","p","r","o","f","/","t","r","a","c","e">>

memRoute == <<"/","d","e","b","u","g","/","m","e","m">>

gcRoute == <<"/","d","e","b","u","g","/","g","c">>

traceRoute == <<"/","d","e","b","u","g","/","t","r","a","c","e">>

\* The alphabet rand0 draws from, and the length of the random part.
chars == <<"A","B","C","D","E","F","G","H","I","J","K","L","M","N","O","P","Q","R","S","T","U","V","W","X","Y","Z","a","b","c","d","e","f","g","h","i","j","k","l","m","n","o","p","q","r","s","t","u","v","w","x","y","z","0","1","2","3","4","5","6","7","8","9","_">>

PrefixLen == 40

\* randPrefix, given the values rand.Intn returns: draws[i] in 0..Len(chars)-1.
randPrefix(draws) == <<"/">> \o [i \in 1..PrefixLen |-> chars[draws[i] + 1]]

\* Plugin with the index route left without its prefix.
PluginBareIndex(entrypoint, token, draws) ==
  LET prefix == randPrefix(draws)
  IN  [entrypoint |-> entrypoint, token |-> token, prefix |-> prefix,
       pprofIndex |-> pprofIndexRoute, pprofName |-> prefix \o pprofNameRoute,
       pprofCmdline |-> prefix \o pprofCmdlineRoute,
       pprofProfile |-> prefix \o pprofProfileRoute,
       pprofSymbol |-> prefix \o pprofSymbolRoute,
       pprofTrace |-> prefix \o pprofTraceRoute, memRoute |-> prefix \o memRoute,
       gcRoute |-> prefix \o gcRoute, traceRoute |-> prefix \o traceRoute]

Plugin(entrypoint, token, draws) ==
  LET prefix == randPrefix(draws)
  IN  [entrypoint   |-> entrypoint,
       token        |-> token,
       prefix       |-> prefix,
       pprofIndex   |-> prefix \o pprofIndexRoute,
       pprofName    |-> prefix \o pprofNameRoute,
       pprofCmdline |-> prefix \o pprofCmdlineRoute,
       pprofProfile |-> prefix \o pprofProfileRoute,
       pprofSymbol  |-> prefix \o pprofSymbolRoute,
       pprofTrace   |-> prefix \o pprofTraceRoute,
       memRoute     |-> prefix \o memRoute,
       gcRoute      |-> prefix \o gcRoute,
       traceRoute   |-> prefix \o traceRoute]

DefaultPlugin(token, draws) == Plugin(pprofIndexRoute, token, draws)

\* Plug: the routes registered with the engine, each path with its handler.
Plug(p) ==
  { [path |-> p.entrypoint,   handler |-> "handler"],
    [path |-> p.pprofIndex,   handler |-> "pprof.Index"],
    [path |-> p.pprofCmdline, handler |-> "pprof.Cmdline"],
    [path |-> p.pprofProfile, handler |-> "pprof.Profile"],
    [path |-> p.pprofSymbol,  handler |-> "pprof.Symbol"],
    [path |-> p.pprofTrace,   handler |-> "pprof.Trace"],
    [path |-> p.pprofName,    handler |-> "pprof0"],
    [path |-> p.memRoute,     handler |-> "mem0"],
    [path |-> p.gcRoute,      handler |-> "gc0"],
    [path |-> p.traceRoute,   handler |-> "trace0"] }

Handlers == {"handler", "pprof.Index", "pprof.Cmdline", "pprof.Profile", "pprof.Symbol",
             "pprof.Trace", "pprof0", "mem0", "gc0", "trace0"}

(***************************************************************************)
(* The handlers that answer in one step.                                   *)
(***************************************************************************)
Unauthorized == <<"U","n","a","u","t","h","o","r","i","z","e","d">>

\* handler answering a token mismatch with the redirect.
handlerAlwaysRedirect(p, params) == Redirect(301, p.pprofIndex)

handler(p, params) ==
  LET token0 == GetQuery(params, "token").v
  IN  IF token0 # p.token THEN String(401, Unauthorized)
                          ELSE Redirect(301, p.pprofIndex)

\* A query value that is lowered is a sequence of runes, each the number of
\* its Unicode code point: "TRUE" is <<84, 82, 85, 69>>.
MaxASCII == 127

MaxRune == 1114111

\* The delta that marks a range of alternating upper and lower case letters.
UpperLower == MaxRune + 1

\* unicode.CaseRanges, for the runes above MaxASCII that ToLower changes: the
\* first and the last rune of each range and its delta to lower case.
CaseRanges ==
  <<<<192, 214, 32>>, <<216, 222, 32>>, <<256, 303, UpperLower>>, <<304, 304, -199>>,
    <<306, 311, UpperLower>>, <<313, 328, UpperLower>>, <<330, 375, UpperLower>>,
    <<376, 376, -121>>, <<377, 382, UpperLower>>, <<385, 385, 210>>, <<386, 389, UpperLower>>,
    <<390, 390, 206>>, <<391, 391, 1>>, <<393, 394, 205>>, <<395, 395, 1>>, <<398, 398, 79>>,
    <<399, 399, 202>>, <<400, 400, 203>>, <<401, 401, 1>>, <<403, 403, 205>>, <<404, 404, 207>>,
    <<406, 406, 211>>, <<407, 407, 209>>, <<408, 408, 1>>, <<412, 412, 211>>, <<413, 413, 213>>,
    <<415, 415, 214>>, <<416, 421, UpperLower>>, <<422, 422, 218>>, <<423, 423, 1>>,
    <<425, 425, 218>>, <<428, 428, 1>>, <<430, 430, 218>>, <<431, 431, 1>>, <<433, 434, 217>>,
    <<435, 438, UpperLower>>, <<439, 439, 219>>, <<440, 440, 1>>, <<444, 444, 1>>, <<452, 452, 2>>,
    <<453, 453, 1>>, <<455, 455, 2>>, <<456, 456, 1>>, <<458, 458, 2>>, <<459, 476, UpperLower>>,
    <<478, 495, UpperLower>>, <<497, 497, 2>>, <<498, 501, UpperLower>>, <<502, 502, -97>>,
    <<503, 503, -56>>, <<504, 543, UpperLower>>, <<544, 544, -130>>, <<546, 563, UpperLower>>,
    <<570, 570, 10795>>, <<571, 571, 1>>, <<573, 573, -163>>, <<574, 574, 10792>>, <<577, 577, 1>>,
    <<579, 579, -195>>, <<580, 580, 69>>, <<581, 581, 71>>, <<582, 591, UpperLower>>,
    <<880, 883, UpperLower>>, <<886, 886, 1>>, <<895, 895, 116>>, <<902, 902, 38>>,
    <<904, 906, 37>>, <<908, 908, 64>>, <<910, 911, 63>>, <<913, 929, 32>>, <<931, 939, 32>>,
    <<975, 975, 8>>, <<984, 1007, UpperLower>>, <<1012, 1012, -60>>, <<1015, 1015, 1>>,
    <<1017, 1017, -7>>, <<1018, 1018, 1>>, <<1021, 1023, -130>>, <<1024, 1039, 80>>,
    <<1040, 1071, 32>>, <<1120, 1153, UpperLower>>, <<1162, 1215, UpperLower>>, <<1216, 1216, 15>>,
    <<1217, 1230, UpperLower>>, <<1232, 1327, UpperLower>>, <<1329, 1366, 48>>,
    <<4256, 4293, 7264>>, <<4295, 4295, 7264>>, <<4301, 4301, 7264>>, <<5024, 5103, 38864>>,
    <<5104, 5109, 8>>, <<7312, 7354, -3008>>, <<7357, 7359, -3008>>, <<7680, 7829, UpperLower>>,
    <<7838, 7838, -7615>>, <<7840, 7935, UpperLower>>, <<7944, 7951, -8>>, <<7960, 7965, -8>>,
    <<7976, 7983, -8>>, <<7992, 7999, -8>>, <<8008, 8013, -8>>, <<8025, 8025, -8>>,
    <<8027, 8027, -8>>, <<8029, 8029, -8>>, <<8031, 8031, -8>>, <<8040, 8047, -8>>,
    <<8072, 8079, -8>>, <<8088, 8095, -8>>, <<8104, 8111, -8>>, <<8120, 8121, -8>>,
    <<8122, 8123, -74>>, <<8124, 8124, -9>>, <<8136, 8139, -86>>, <<8140, 8140, -9>>,
    <<8152, 8153, -8>>, <<8154, 8155, -100>>, <<8168, 8169, -8>>, <<8170, 8171, -112>>,
    <<8172, 8172, -7>>, <<8184, 8185, -128>>, <<8186, 8187, -126>>, <<8188, 8188, -9>>,
    <<8486, 8486, -7517>>, <<8490, 8490, -8383>>, <<8491, 8491, -8262>>, <<8498, 8498, 28>>,
    <<8544, 8559, 16>>, <<8579, 8579, 1>>, <<9398, 9423, 26>>, <<11264, 11311, 48>>,
    <<11360, 11360, 1>>, <<11362, 11362, -10743>>, <<11363, 11363, -3814>>,
    <<11364, 11364, -10727>>, <<11367, 11372, UpperLower>>, <<11373, 11373, -10780>>,
    <<11374, 11374, -10749>>, <<11375, 11375, -10783>>, <<11376, 11376, -10782>>,
    <<11378, 11378, 1>>, <<11381, 11381, 1>>, <<11390, 11391, -10815>>,
    <<11392, 11491, UpperLower>>, <<11499, 11502, UpperLower>>, <<11506, 11506, 1>>,
    <<42560, 42605, UpperLower>>, <<42624, 42651, UpperLower>>, <<42786, 42799, UpperLower>>,
    <<42802, 42863, UpperLower>>, <<42873, 42876, UpperLower>>, <<42877, 42877, -35332>>,
    <<42878, 42887, UpperLower>>, <<42891, 42891, 1>>, <<42893, 42893, -42280>>,
    <<42896, 42899, UpperLower>>, <<42902, 42921, UpperLower>>, <<42922, 42922, -42308>>,
    <<42923, 42923, -42319>>, <<42924, 42924, -42315>>, <<42925, 42925, -42305>>,
    <<42926, 42926, -42308>>, <<42928, 42928, -42258>>, <<42929, 42929, -42282>>,
    <<42930, 42930, -42261>>, <<42931, 42931, 928>>, <<42932, 42947, UpperLower>>,
    <<42948, 42948, -48>>, <<42949, 42949, -42307>>, <<42950, 42950, -35384>>,
    <<42951, 42954, UpperLower>>, <<42960, 42960, 1>>, <<42966, 42969, UpperLower>>,
    <<42997, 42997, 1>>, <<65313, 65338, 32>>, <<66560, 66599, 40>>, <<66736, 66771, 40>>,
    <<66928, 66938, 39>>, <<66940, 66954, 39>>, <<66956, 66962, 39>>, <<66964, 66965, 39>>,
    <<68736, 68786, 64>>, <<71840, 71871, 32>>, <<93760, 93791, 32>>, <<125184, 125217, 34>>>>

\* unicode.to for LowerCase: the rune of a range moves by the range's delta,
\* and in an alternating range to the odd place of its pair; a rune of no
\* range is kept.
to(r) ==
  IF \E k \in 1..Len(CaseRanges) : CaseRanges[k][1] <= r /\ r <= CaseRanges[k][2]
  THEN LET cr == CaseRanges[CHOOSE k \in 1..Len(CaseRanges) : CaseRanges[k][1] <= r /\ r <= CaseRanges[k][2]]
       IN  IF cr[3] = UpperLower THEN cr[1] + 2 * ((r - cr[1]) \div 2) + 1
           ELSE r + cr[3]
  ELSE r

\* unicode.ToLower: 'A'..'Z' move by 'a' - 'A', the other runes of ASCII are
\* kept, and the runes above go through the case ranges.
unicodeToLower(r) ==
  IF r <= MaxASCII THEN (IF 65 <= r /\ r <= 90 THEN r + 32 ELSE r)
  ELSE to(r)

\* strings.ToLower: every rune is mapped by unicode.ToLower.
ToLower(s) == [i \in 1..Len(s) |-> unicodeToLower(s[i])]

\* case "1", "t", "true" of the lowered `json` value.
IsJSON(params) == ToLower(Query(params, "json")) \in {<<49>>, <<116>>, <<116, 114, 117, 101>>}

(***************************************************************************)
(* convertBytes.                                                           *)
(***************************************************************************)
\* value >= 1024
GE1024(value) == value.m # <<>> /\ Len(value.m) + value.e >= 11

units == <<<<"B">>, <<"K","B">>, <<"M","B">>, <<"G","B">>>>

RECURSIVE scale(_, _)
\* for value >= 1024 && unitIndex < len(units)-1 { value /= 1024; unitIndex++ }
\* A division by 1024 is exact: it lowers the exponent by ten.
scale(value, unitIndex) ==
  IF GE1024(value) /\ unitIndex < Len(units) - 1
  THEN scale([m |-> value.m, e |-> value.e - 10], unitIndex + 1)
  ELSE [value |-> value, unitIndex |-> unitIndex]

\* math.Round: the nearest integer, halves away from zero.
Round(value) ==
  IF value.e >= 0 THEN Shl(value.m, value.e)
  ELSE LET k    == 0 - value.e
           half == IF k <= Len(value.m) THEN value.m[k] ELSE 0
       IN  IF half = 1 THEN Inc(Shr(value.m, k)) ELSE Shr(value.m, k)

RECURSIVE Decimal(_)
\* The decimal digits of x, none for zero.
Decimal(x) ==
  IF x = <<>> THEN <<>>
  ELSE LET dm == Div10(x, Len(x), 0)
       IN  Decimal(Norm(dm.q)) \o <<Digits[dm.r + 1]>>

\* fmt.Sprintf("%.2f %s", n/100, unit) for an integer n below 2^53: n/100 is
\* within 2^-19 of its float64, so its two decimals are those of n.
Sprintf(n, unit) ==
  LET ds  == Decimal(n)
      pad == [i \in 1..(3 - Len(ds)) |-> "0"] \o ds
      k   == Len(pad)
  IN  SubSeq(pad, 1, k - 2) \o <<".">> \o SubSeq(pad, k - 1, k) \o <<" ">> \o unit

convertBytes(bytes) ==
  LET s == scale(float64(bytes, 0), 0)
      n == Round(float64(Times100(s.value.m), s.value.e))
  IN  Sprintf(n, units[s.unitIndex + 1])

(***************************************************************************)
(* The memory statistics the runtime reports.  Of runtime.MemStats the     *)
(* model keeps TotalAlloc, the cumulative count of bytes allocated; every  *)
(* other byte count of the report goes through the same convertBytes.      *)
(***************************************************************************)
VARIABLE totalAlloc

\* The TotalAlloc line of the text report.
memStats(ms) == <<"TotalAlloc:  ">> \o convertBytes(ms) \o <<" (Cumulative total memory allocated on heap)">>

\* The TotalAlloc entry of the JSON report.
memStatsJSON(ms) == <<"TotalAlloc">> \o convertBytes(ms)

mem0(params) ==
  IF IsJSON(params) THEN JSON(200, memStatsJSON(totalAlloc)) ELSE String(200, memStats(totalAlloc))

gc0(params) ==
  IF IsJSON(params) THEN JSON(200, <<"gcStatsJSON">>) ELSE String(200, <<"gcStats">>)

\* 1<<64 - 1
MaxUint64 == [i \in 1..UintBits |-> 1]

RECURSIVE ParseUint(_, _)
\* strconv.ParseUint(s, 10, 64) after the digits that gave n: a syntax error
\* at a character that is no digit, and the largest uint64 with a range
\* error at the digit that would pass it.
ParseUint(s, n) ==
  IF s = <<>> THEN [n |-> n, err |-> ""]
  ELSE IF ~IsDigit(Head(s)) THEN [n |-> <<>>, err |-> "syntax"]
  ELSE IF Less(Tenth(MaxUint64), n) THEN [n |-> MaxUint64, err |-> "range"]
  ELSE LET n1 == Add(Times10(n), Bits(DigitVal(Head(s))))
       IN  IF Less(MaxUint64, n1) THEN [n |-> MaxUint64, err |-> "range"]
           ELSE ParseUint(Tail(s), n1)

\* strconv.Atoi with the error dropped, as the sign and the magnitude of the
\* int: 0 on a syntax error, the nearest int64 on a range error.
Atoi(s) ==
  LET signed == s # <<>> /\ Head(s) \in {"-", "+"}
      neg    == signed /\ Head(s) = "-"
      body   == IF signed THEN Tail(s) ELSE s
      un     == ParseUint(body, <<>>)
      n      == IF body = <<>> \/ un.err = "syntax" THEN <<>>
                ELSE IF neg /\ Less(Pow63, un.n) THEN Pow63
                ELSE IF ~neg /\ Less(MaxInt64, un.n) THEN MaxInt64
                ELSE un.n
  IN  [neg |-> neg /\ n # <<>>, n |-> n]

\* The profiles runtime/pprof registers.
Profiles == {<<"g","o","r","o","u","t","i","n","e">>, <<"t","h","r","e","a","d","c","r","e","a","t","e">>, <<"h","e","a","p">>, <<"a","l","l","o","c","s">>, <<"b","l","o","c","k">>, <<"m","u","t","e","x">>}

\* The Content-Disposition of a download: attachment; filename="<name>".
Attachment(name) == <<"attachment; filename=", "\"">> \o name \o <<"\"">>

\* pprof0 with the download headers set whatever `debug` is.
pprof0AlwaysAttachment(params) ==
  LET name == Query(params, "name")
  IN  IF name \notin Profiles THEN serveError(404, <<"U","n","k","n","o","w","n"," ","p","r","o","f","i","l","e">>)
      ELSE Response(200, OctetStream, Attachment(name), <<>>, <<"profile">>)

\* pprof0: name is the path parameter, debug the form value; the profile is
\* written with status 200.
pprof0(params) ==
  LET name  == Query(params, "name")
      debug == Atoi(Query(params, "debug"))
  IN  IF name \notin Profiles THEN serveError(404, <<"U","n","k","n","o","w","n"," ","p","r","o","f","i","l","e">>)
      ELSE IF debug.n # <<>> THEN Response(200, TextPlain, <<>>, <<>>, <<"profile">>)
      ELSE Response(200, OctetStream, Attachment(name), <<>>, <<"profile">>)

\* A handler of net/http/pprof that answers at once: Index writes an HTML
\* page, Cmdline and Symbol plain text.
Delegated(h) ==
  Response(200, IF h = "pprof.Index" THEN TextHTML ELSE TextPlain, <<>>, <<>>, <<h>>)

\* pprof.StartCPUProfile: an error when the CPU profiler is on already.
StartCPUProfile(cpu) == [ok |-> ~cpu, cpu |-> TRUE]

\* pprof.StopCPUProfile
StopCPUProfile(cpu) == FALSE

\* net/http/pprof's Profile as the CPU profiler decides it on entry: the
\* download headers are set, and serveError replaces them when
\* StartCPUProfile fails.
pprofProfile(cpu) ==
  IF StartCPUProfile(cpu).ok
  THEN Response(200, OctetStream, Attachment(<<"p","r","o","f","i","l","e">>), <<>>, <<"profile">>)
  ELSE serveError(500, <<"C","o","u","l","d"," ","n","o","t"," ","e","n","a","b","l","e"," ","C","P","U"," ","p","r","o","f","i","l","i","n","g",":"," ","c","p","u"," ","p","r","o","f","i","l","i","n","g"," ","a","l","r","e","a","d","y"," ","i","n"," ","u","s","e">>)

(***************************************************************************)
(* The runtime tracer (runtime/trace) and the gate mutex of trace.go.      *)
(* tracing is 0 when no recording is active, else the thread whose         *)
(* trace.Start began the recording.                                        *)
(***************************************************************************)
\* mu.TryLock with every attempt succeeding.
TryLockAlways(m) == [ok |-> TRUE, mu |-> TRUE]

\* mu.TryLock: never blocks; succeeds exactly when the mutex is free.
TryLock(m) == [ok |-> ~m, mu |-> TRUE]

\* The rejection with the mutex released on the way out.
RejectUnlocked(m) == FALSE

\* The mutex after the rejection of line 32: trace0 returns before its
\* deferred mu.Unlock is registered, so the mutex is left as it is.
Reject(m) == m

IsEnabled(tr) == tr # 0

\* trace.Start by thread t: an error, dropped by trace0, when already active.
Start(tr, t) == IF tr = 0 THEN t ELSE tr

\* trace.Stop: stops the recording that is active, whoever started it.
Stop(tr) == 0

AlreadyActive == <<"T","r","a","c","i","n","g"," ","i","s"," ","a","l","r","e","a","d","y"," ","a","c","t","i","v","e">>

\* net/http/pprof's Trace as the tracer state decides it on entry.
pprofTrace(tr) ==
  IF IsEnabled(tr)
  THEN serveError(500, <<"C","o","u","l","d"," ","n","o","t"," ","e","n","a","b","l","e"," ","t","r","a","c","i","n","g",":"," ","t","r","a","c","i","n","g"," ","i","s"," ","a","l","r","e","a","d","y"," ","e","n","a","b","l","e","d">>)
  ELSE Response(200, OctetStream, Attachment(<<"t","r","a","c","e">>), <<>>, <<"trace">>)

\* The routes with every handler behind the gate.
ServeGated(h, p, params, m, tr, cpu) ==
  IF m THEN serveError(400, AlreadyActive)
  ELSE CASE h = "handler" -> handler(p, params)
         [] h = "pprof0"  -> pprof0(params)
         [] h = "mem0"    -> mem0(params)
         [] h = "gc0"     -> gc0(params)
         [] h = "pprof.Trace" -> pprofTrace(tr)
         [] h = "pprof.Profile" -> pprofProfile(cpu)
         [] OTHER -> Delegated(h)

\* The response of the handler registered as h, entered with the gate mutex
\* in state m, the tracer in state tr and the CPU profiler in state cpu.
Serve(h, p, params, m, tr, cpu) ==
  CASE h = "handler"     -> handler(p, params)
    [] h = "pprof0"      -> pprof0(params)
    [] h = "mem0"        -> mem0(params)
    [] h = "gc0"         -> gc0(params)
    [] h = "pprof.Trace" -> pprofTrace(tr)
    [] h = "pprof.Profile" -> pprofProfile(cpu)
    [] h \in {"pprof.Index", "pprof.Cmdline", "pprof.Symbol"} -> Delegated(h)

(***************************************************************************)
(* State.                                                                  *)
(***************************************************************************)
VARIABLES
  mu,       \* the gate mutex is locked
  tracing,  \* the runtime tracer: 0, or the thread that started the recording
  plugins,  \* the plugin instances, built at construction
  pc,       \* where each handler thread is
  req,      \* the query parameters of the trace-control request a thread serves
  dur0,     \* the capture window of the trace-control request a thread serves
  last,     \* the latest response: handler, plugin, parameters, response,
            \* whether a trace-control capture was in its window when served,
            \* and whether the CPU profiler was on
  profiling \* the CPU profiler is on

vars == <<mu, tracing, plugins, pc, req, dur0, last, totalAlloc, profiling>>

\* A trace-control request is in its capture window between its trace.Start
\* and its trace.Stop.
InWindow(t) == pc[t] = "sleep"

Capturing == \E t \in Threads : InWindow(t)

Served(h, p, params, resp) ==
  [handler |-> h, plugin |-> p, params |-> params, resp |-> resp, cap |-> Capturing,
   cpu |-> profiling]

\* The handlers other than the entrypoint's are not given a plugin.
NoPlugin == [token |-> <<>>, pprofIndex |-> <<>>]

NoRequest ==
  [handler |-> "none", plugin |-> 0, params |-> {}, resp |-> Response(0, "", <<>>, <<>>, <<>>),
   cap |-> FALSE, cpu |-> FALSE]

\* The k-th enumerated sequence of rand.Intn results.
Draws(k) == [i \in 1..PrefixLen |-> (k * 17 + i * 7) % Len(chars)]

InitGate ==
  /\ mu = FALSE
  /\ tracing = 0
  /\ pc = [t \in Threads |-> "idle"]
  /\ req = [t \in Threads |-> {}]
  /\ dur0 = [t \in Threads |-> DurZero]
  /\ last = NoRequest
  /\ profiling = FALSE

(***************************************************************************)
(* trace0, one action per step that other threads can interleave with.     *)
(* Every plugin registers the same package-level function, over the same   *)
(* package-level mutex, so a request is the same step whichever plugin's   *)
(* route it came by.                                                       *)
(***************************************************************************)
\* if !mu.TryLock() ...: rejected when the mutex is held.
TraceTryLock(t, params) ==
  /\ pc[t] = "idle"
  /\ LET r == TryLock(mu)
     IN  IF r.ok
         THEN /\ mu' = r.mu
              /\ pc' = [pc EXCEPT ![t] = "isenabled"]
              /\ req' = [req EXCEPT ![t] = params]
              /\ last' = last
         ELSE /\ last' = Served("trace0", 0, params, serveError(400, AlreadyActive))
              /\ mu' = Reject(mu)
              /\ UNCHANGED <<pc, req>>
  /\ UNCHANGED <<tracing, plugins, dur0, totalAlloc, profiling>>

\* ... || trace.IsEnabled(): rejected when the tracer is active; the return
\* comes before the deferred mu.Unlock is registered.
TraceIsEnabled(t) ==
  /\ pc[t] = "isenabled"
  /\ IF IsEnabled(tracing)
     THEN /\ last' = Served("trace0", 0, req[t], serveError(400, AlreadyActive))
          /\ pc' = [pc EXCEPT ![t] = "idle"]
          /\ req' = [req EXCEPT ![t] = {}]
          /\ mu' = Reject(mu)
     ELSE /\ pc' = [pc EXCEPT ![t] = "start"]
          /\ UNCHANGED <<mu, req, last>>
  /\ UNCHANGED <<tracing, plugins, dur0, totalAlloc, profiling>>

\* The duration is read and trace.Start is called, its error dropped: the
\* response is 200.  When the recording began it carries trace data, and
\* net/http, finding no Content-Type set at the first write, gives the binary
\* data application/octet-stream; when it did not, nothing is written.
TraceStart(t) ==
  /\ pc[t] = "start"
  /\ dur0' = [dur0 EXCEPT ![t] = Dur0(req[t])]
  /\ tracing' = Start(tracing, t)
  /\ pc' = [pc EXCEPT ![t] = "sleep"]
  /\ last' = Served("trace0", 0, req[t],
                    IF tracing = 0 THEN Response(200, OctetStream, <<>>, <<>>, <<"trace">>)
                    ELSE Response(200, "", <<>>, <<>>, <<>>))
  /\ UNCHANGED <<mu, plugins, req, totalAlloc, profiling>>

\* time.Sleep(dur0) returns and trace.Stop is called.
TraceStop(t) ==
  /\ pc[t] = "sleep"
  /\ tracing' = Stop(tracing)
  /\ pc' = [pc EXCEPT ![t] = "unlock"]
  /\ UNCHANGED <<mu, plugins, req, dur0, last, totalAlloc, profiling>>

\* The deferred mu.Unlock.
TraceUnlock(t) ==
  /\ pc[t] = "unlock"
  /\ mu' = FALSE
  /\ pc' = [pc EXCEPT ![t] = "idle"]
  /\ req' = [req EXCEPT ![t] = {}]
  /\ dur0' = [dur0 EXCEPT ![t] = DurZero]
  /\ UNCHANGED <<tracing, plugins, last, totalAlloc, profiling>>

(***************************************************************************)
(* The passthrough execution trace, net/http/pprof's Trace: trace.Start,   *)
(* 500 when it fails, else a sleep and trace.Stop.                         *)
(***************************************************************************)
PprofTraceStart(t) ==
  /\ pc[t] = "idle"
  /\ LET resp == Serve("pprof.Trace", NoPlugin, {}, mu, tracing, profiling)
     IN  /\ last' = Served("pprof.Trace", 0, {}, resp)
         /\ IF resp.status = 200
            THEN /\ tracing' = Start(tracing, t)
                 /\ pc' = [pc EXCEPT ![t] = "psleep"]
            ELSE UNCHANGED <<tracing, pc>>
  /\ UNCHANGED <<mu, plugins, req, dur0, totalAlloc, profiling>>

PprofTraceStop(t) ==
  /\ pc[t] = "psleep"
  /\ tracing' = Stop(tracing)
  /\ pc' = [pc EXCEPT ![t] = "idle"]
  /\ UNCHANGED <<mu, plugins, req, dur0, last, totalAlloc, profiling>>

(***************************************************************************)
(* The CPU profile, net/http/pprof's Profile: StartCPUProfile, 500 when it *)
(* fails, else a sleep of thirty seconds and StopCPUProfile.               *)
(***************************************************************************)
PprofProfileStart(t) ==
  /\ pc[t] = "idle"
  /\ LET resp == Serve("pprof.Profile", NoPlugin, {}, mu, tracing, profiling)
     IN  /\ last' = Served("pprof.Profile", 0, {}, resp)
         /\ IF resp.status = 200
            THEN /\ profiling' = StartCPUProfile(profiling).cpu
                 /\ pc' = [pc EXCEPT ![t] = "cpusleep"]
            ELSE UNCHANGED <<profiling, pc>>
  /\ UNCHANGED <<mu, tracing, plugins, req, dur0, totalAlloc>>

PprofProfileStop(t) ==
  /\ pc[t] = "cpusleep"
  /\ profiling' = StopCPUProfile(profiling)
  /\ pc' = [pc EXCEPT ![t] = "idle"]
  /\ UNCHANGED <<mu, tracing, plugins, req, dur0, last, totalAlloc>>

(***************************************************************************)
(* The handlers that answer in one step.  Only the entrypoint's handler is *)
(* a method of the plugin; the others are package-level functions.         *)
(***************************************************************************)
Entrypoint(p, params) ==
  /\ last' = Served("handler", p, params, Serve("handler", plugins[p], params, mu, tracing, profiling))
  /\ UNCHANGED <<mu, tracing, plugins, pc, req, dur0, totalAlloc, profiling>>

Answer(h, params) ==
  /\ last' = Served(h, 0, params, Serve(h, NoPlugin, params, mu, tracing, profiling))
  /\ UNCHANGED <<mu, tracing, plugins, pc, req, dur0, totalAlloc, profiling>>

PprofIndex == Answer("pprof.Index", {})

PprofCmdline == Answer("pprof.Cmdline", {})

PprofSymbol == Answer("pprof.Symbol", {})

PprofName(params) == Answer("pprof0", params)

Mem(params) == Answer("mem0", params)

GC(params) == Answer("gc0", params)

(***************************************************************************)
(* The concurrent specification: every endpoint, served by NumThreads      *)
(* threads, over a few requests of each kind.                              *)
(***************************************************************************)
Param(key, values) == {{}} \cup {{<<key, v>>} : v \in values}

SomeDurs == Param("dur", {<<"5","s">>, <<"b","o","g","u","s">>, <<"-","5","s">>})

SomeTokens == Param("token", {<<>>, <<"s","3","c","r","e","t">>})

SomeJSON == Param("json", {<<84, 82, 85, 69>>, <<452>>})

SomeNames == {{<<"name", <<"h","e","a","p">>>>}, {<<"name", <<"n","o","p","e">>>>}, {<<"name", <<"h","e","a","p">>>>, <<"debug", <<"1">>>>}}

\* Plugin i as main() constructs it: the first with DefaultPlugin, the others
\* with Plugin and a custom entrypoint.
Construct(i, token, seed) ==
  IF i = 1 THEN DefaultPlugin(token, Draws(seed)) ELSE Plugin(<<"/","p","p","r","o","f">>, token, Draws(seed))

\* A process that has allocated one megabyte so far.
SomeAlloc == Shl(<<1>>, 20)

Init ==
  /\ InitGate
  /\ totalAlloc = SomeAlloc
  /\ plugins = [i \in Plugins |-> Construct(i, IF i = 1 THEN <<"s","3","c","r","e","t">> ELSE <<>>, i)]

Next ==
  \/ \E t \in Threads, params \in SomeDurs : TraceTryLock(t, params)
  \/ \E t \in Threads : TraceIsEnabled(t)
  \/ \E t \in Threads : TraceStart(t)
  \/ \E t \in Threads : TraceStop(t)
  \/ \E t \in Threads : TraceUnlock(t)
  \/ \E t \in Threads : PprofTraceStart(t)
  \/ \E t \in Threads : PprofTraceStop(t)
  \/ \E p \in Plugins, params \in SomeTokens : Entrypoint(p, params)
  \/ PprofIndex
  \/ PprofCmdline
  \/ \E t \in Threads : PprofProfileStart(t)
  \/ \E t \in Threads : PprofProfileStop(t)
  \/ PprofSymbol
  \/ \E params \in SomeNames : PprofName(params)
  \/ \E params \in SomeJSON : Mem(params)
  \/ \E params \in SomeJSON : GC(params)

Spec == Init /\ [][Next]_vars

(***************************************************************************)
(* One trace-control request served alone, over every `dur` value of up to *)
(* MaxDurLen characters of DurAlphabet and some longer ones.               *)
(***************************************************************************)
DurAlphabet == {"-", "+", "0", "5", ".", "s", "m", "h"}

\* Durations at the limits of an int64, with the two micro signs, and with
\* fractions of ten and of nineteen digits.
LongDurs ==
  {<<"1","µ","s">>,
   <<"1","μ","s">>,
   <<"9","2","2","3","3","7","2","0","3","6","8","5","4","7","7","5","8","0","7","n","s">>,
   <<"9","2","2","3","3","7","2","0","3","6","8","5","4","7","7","5","8","0","8","n","s">>,
   <<"-","9","2","2","3","3","7","2","0","3","6","8","5","4","7","7","5","8","0","8","n","s">>,
   <<"9","9","9","9","9","9","9","9","9","9","9","s">>,
   <<"3","0","0","0","0","0","0","h">>,
   <<"2","5","6","2","0","4","8","h">>,
   <<".","1","0","0","0","0","0","0","0","0","0","s">>,
   <<".","0","0","0","0","0","0","0","0","0","1","h">>,
   <<".","9","9","9","9","9","9","9","9","9","9","9","9","9","9","9","9","9","9","9","n","s">>,
   <<"9","2","2","3","3","7","2","0","3","6","8","5","4","7","7","5","8","0","8","n","s","9","2","2","3","3","7","2","0","3","6","8","5","4","7","7","5","8","0","8","n","s">>}

DurStrings ==
  UNION {[1..n -> DurAlphabet] : n \in 0..MaxDurLen}
    \cup {<<"b","o","g","u","s">>, <<"1","0","s">>, <<"1","h","3","0","m">>, <<"-","1",".","5","h">>, <<"1","0","0","m","s">>, <<"1","n","s">>, <<".","0","0","1","5","u","s">>}
    \cup LongDurs

AllDurs == Param("dur", DurStrings)

NextDur ==
  \/ /\ last = NoRequest
     /\ \E params \in AllDurs : TraceTryLock(1, params)
  \/ TraceIsEnabled(1)
  \/ TraceStart(1)
  \/ TraceStop(1)
  \/ TraceUnlock(1)

SpecDur == Init /\ [][NextDur]_vars

(***************************************************************************)
(* The entrypoint of every plugin, over the plugins' tokens and prefixes,  *)
(* with a trace-control request coming and going.                          *)
(***************************************************************************)
Tokens == {<<>>, <<"a">>, <<"a", "b">>}

Seeds == {0, 1}

InitRouter ==
  /\ InitGate
  /\ totalAlloc = SomeAlloc
  /\ \E tk \in [Plugins -> Tokens], sd \in [Plugins -> Seeds] :
       plugins = [i \in Plugins |-> Construct(i, tk[i], sd[i])]

NextRouter ==
  \/ \E p \in Plugins, params \in Param("token", Tokens \cup {<<"b">>}) : Entrypoint(p, params)
  \/ TraceTryLock(1, {})
  \/ TraceIsEnabled(1)
  \/ TraceStart(1)
  \/ TraceStop(1)
  \/ TraceUnlock(1)

SpecRouter == InitRouter /\ [][NextRouter]_vars

(***************************************************************************)
(* The named-profile endpoint, over every registered profile name, some    *)
(* unregistered ones and every `debug` value of up to MaxDebugLen          *)
(* characters of DebugAlphabet: one request, served at any point of a      *)
(* trace-control request.                                                  *)
(***************************************************************************)
MaxDebugLen == 2

DebugAlphabet == {"-", "+", "0", "1", "a"}

\* Integers that an int64 does not hold, one of them followed by a letter.
LongDebugs ==
  {<<"9","2","2","3","3","7","2","0","3","6","8","5","4","7","7","5","8","0","7">>,
   <<"9","2","2","3","3","7","2","0","3","6","8","5","4","7","7","5","8","0","8">>,
   <<"-","9","2","2","3","3","7","2","0","3","6","8","5","4","7","7","5","8","0","9">>,
   <<"9","9","9","9","9","9","9","9","9","9","9","9","9","9","9","9","9","9","9","9">>,
   <<"9","9","9","9","9","9","9","9","9","9","9","9","9","9","9","9","9","9","9","9","a">>}

DebugStrings == UNION {[1..n -> DebugAlphabet] : n \in 0..MaxDebugLen} \cup LongDebugs

\* pprof.Lookup is case-sensitive; the empty name never reaches the route.
ProfileNames == Profiles \cup {<<"n","o","p","e">>, <<"H","e","a","p">>, <<"h","e","a","p","s">>}

ProfileRequests ==
  {{<<"name", n>>} \cup d : n \in ProfileNames, d \in Param("debug", DebugStrings)}

NextPprof ==
  \/ /\ last.handler # "pprof0"
     /\ \E params \in ProfileRequests : PprofName(params)
  \/ TraceTryLock(1, {})
  \/ TraceIsEnabled(1)
  \/ TraceStart(1)
  \/ TraceStop(1)
  \/ TraceUnlock(1)

SpecPprof == Init /\ [][NextPprof]_vars

(***************************************************************************)
(* The memory statistics endpoint over the byte counts a uint64 holds:     *)
(* every count of at most UintBits bits whose bits below the highest are a *)
(* run of equal bits at the low end, one bit above the run, and zeros.     *)
(* These are the powers of two, their neighbours, the sums of two powers   *)
(* and the counts just below such a sum.                                   *)
(***************************************************************************)
ByteCount(n, c, y, x) ==
  [i \in 1..n |-> IF i = n THEN 1 ELSE IF i = c + 1 THEN y ELSE IF i <= c THEN x ELSE 0]

ByteCounts ==
  {<<>>} \cup {ByteCount(n, c, y, x) : n \in 1..UintBits, c \in 0..(UintBits - 1), y \in {0, 1}, x \in {0, 1}}

InitBytes ==
  /\ InitGate
  /\ totalAlloc \in ByteCounts
  /\ plugins = [i \in Plugins |-> Construct(i, <<"s","3","c","r","e","t">>, i)]

NextBytes == \E params \in SomeJSON : Mem(params)

SpecBytes == InitBytes /\ [][NextBytes]_vars

(***************************************************************************)
(* Properties.                                                             *)
(***************************************************************************)
InTrace0(t) == pc[t] \in {"isenabled", "start", "sleep", "unlock"}

\* sub occurs in s
Contains(s, sub) ==
  \E i \in 0..(Len(s) - Len(sub)) : SubSeq(s, i + 1, i + Len(sub)) = sub

\* C1: at most one trace-control request is inside its capture window,
\* between its trace.Start and its trace.Stop, at any time.
C1_AtMostOneCapture == Cardinality({t \in Threads : InWindow(t)}) <= 1

\* A capture is in its window and a concurrent trace-control request was
\* rejected during it.
C1_Witness ==
  /\ Capturing
  /\ last.handler = "trace0" /\ last.cap /\ last.resp.status = 400

\* C2: once every trace-control request has returned, captured or rejected,
\* a subsequent trace-control request can acquire the gate.
C2_NoPermanentLockout == (\A t \in Threads : ~InTrace0(t)) => TryLock(mu).ok

\* C3: a trace-control request issued while another is within its window is
\* answered 400 "Tracing is already active" in the step that issues it, and
\* that step leaves the tracer, the gate and the first request as they were;
\* the gate is held throughout the window.
C3_SecondRejectedFirstUntouched ==
  /\ [](/\ (last.handler = "trace0" /\ last.cap) => last.resp = serveError(400, AlreadyActive)
        /\ \A t \in Threads : InWindow(t) => mu)
  /\ [][(Capturing /\ last' # last /\ last'.handler = "trace0" /\ last'.cap)
          => (mu' = mu /\ tracing' = tracing /\ pc' = pc /\ req' = req /\ dur0' = dur0)]_vars

\* A second trace-control request was rejected while a capture, which began
\* the recording itself, is still in its window.
C3_Witness ==
  /\ \E t \in Threads : InWindow(t) /\ tracing = t /\ mu
  /\ last.handler = "trace0" /\ last.cap /\ last.resp.status = 400

\* C4: whenever trace0 calls trace.Start, the tracer is not active.
C4_StartOnlyWhenInactive ==
  [][\A t \in Threads : (pc[t] = "start" /\ pc'[t] = "sleep") => ~IsEnabled(tracing)]_vars

\* C5: an accepted trace-control request whose `dur` parses to a zero or a
\* negative duration captures for the ten-second default, and no capture has
\* a window of zero or negative length.
C5_NonPositiveFallsBack ==
  \A t \in Threads : InWindow(t) =>
    /\ ~IsPositiveDur(ParseDuration(Query(req[t], "dur")).d) => dur0[t] = Seconds(10)
    /\ IsPositiveDur(dur0[t])

\* C6: an entrypoint request whose token value differs from the plugin's
\* token is answered 401 with a plain-text body and no redirect, nothing in
\* the response contains the random prefix, and the step changes neither the
\* gate, the tracer, the plugins' routes nor any request being served.
C6_MismatchIs401 ==
  /\ [](\A p \in Plugins :
          (last.handler = "handler" /\ last.plugin = p
             /\ Query(last.params, "token") # plugins[p].token)
          => /\ last.resp.status = 401
             /\ last.resp.ctype = TextPlain
             /\ last.resp.body = Unauthorized
             /\ last.resp.location = <<>>
             /\ \A q \in Plugins :
                  /\ ~Contains(last.resp.body, Tail(plugins[q].prefix))
                  /\ ~Contains(last.resp.location, Tail(plugins[q].prefix))
                  /\ ~Contains(last.resp.disp, Tail(plugins[q].prefix)))
  /\ [][(last' # last /\ last'.handler = "handler" /\ last'.resp.status = 401)
          => UNCHANGED <<mu, tracing, plugins, pc, req, dur0>>]_vars

\* A request with a wrong token was answered 401 while a capture held the
\* gate.
C6_Witness ==
  /\ last.handler = "handler" /\ GetQuery(last.params, "token").ok
  /\ last.resp.status = 401 /\ last.cap /\ mu

\* C7: an entrypoint request whose token value equals the plugin's token is
\* answered 301 to that plugin's generated prefix followed by /debug/pprof/,
\* the path under which Plug registered the index handler.
C7_MatchRedirectsToIndex ==
  \A p \in Plugins :
    (last.handler = "handler" /\ last.plugin = p
       /\ Query(last.params, "token") = plugins[p].token)
    => /\ last.resp.status = 301
       /\ last.resp.location = plugins[p].prefix \o pprofIndexRoute
       /\ [path |-> last.resp.location, handler |-> "pprof.Index"] \in Plug(plugins[p])
       /\ Len(plugins[p].prefix) = 1 + PrefixLen

\* A plugin with a custom entrypoint redirected a request carrying its token.
C7_Witness ==
  /\ last.handler = "handler" /\ last.resp.status = 301
  /\ GetQuery(last.params, "token").ok
  /\ plugins[last.plugin].entrypoint # pprofIndexRoute

\* C8: an entrypoint request that carries no token parameter is answered 401
\* and is not redirected, whatever the plugin's token.
C8_TokenRequired ==
  (last.handler = "handler" /\ ~GetQuery(last.params, "token").ok)
  => (last.resp.status = 401 /\ last.resp.location = <<>>)

\* C9: the capture window of an accepted trace-control request is the parsed
\* `dur` when that is a valid positive duration (five seconds for "5s"), and
\* ten seconds when `dur` is absent, empty or unparsable (as "bogus" is); the
\* request is answered 200 either way.
C9_WindowFromDur ==
  \A t \in Threads : InWindow(t) =>
    LET q == GetQuery(req[t], "dur")
        r == ParseDuration(q.v)
    IN  /\ (r.ok /\ IsPositiveDur(r.d)) => dur0[t] = r.d
        /\ (~q.ok \/ q.v = <<>> \/ ~r.ok) => dur0[t] = Seconds(10)
        /\ q.v = <<"5","s">> => dur0[t] = Seconds(5)
        /\ q.v = <<"b","o","g","u","s">> => dur0[t] = Seconds(10)
        /\ last.handler = "trace0" /\ last.params = req[t] /\ last.resp.status = 200

\* A request with dur=bogus is in its window of ten seconds.
C9_Witness ==
  \E t \in Threads :
    /\ InWindow(t) /\ Query(req[t], "dur") = <<"b","o","g","u","s">>
    /\ dur0[t] = Seconds(10) /\ last.resp.status = 200

OtherHandlers == Handlers \ {"trace0"}

PluginOf(l) == IF l.handler = "handler" THEN plugins[l.plugin] ELSE NoPlugin

\* The trace-control position of each thread.
TracePc == [t \in Threads |-> IF InTrace0(t) THEN pc[t] ELSE "out"]

\* C10 as stated: a trace-control request served while a capture is in its
\* window is rejected, and a request to any other endpoint, the passthrough
\* execution trace included, served when a capture was in progress gets the
\* response it would get now that none is, and the other way round.
C10_NoEffectOnAnyOtherEndpoint ==
  /\ (last.handler = "trace0" /\ last.cap) => last.resp.status = 400
  /\ (last.handler \in OtherHandlers /\ last.cap # Capturing
        /\ \A t \in Threads : pc[t] # "psleep")
     => Serve(last.handler, PluginOf(last), last.params, mu, tracing, last.cpu) = last.resp

\* C10 amended: as stated, for the endpoints other than the passthrough
\* execution trace, in whatever state the gate and the tracer are; and no
\* step other than trace0's own, the passthrough's included, changes the gate.
C10_NoEffectExceptPassthrough ==
  /\ [](/\ (last.handler = "trace0" /\ last.cap) => last.resp.status = 400
        /\ (last.handler \in OtherHandlers \ {"pprof.Trace"})
           => Serve(last.handler, PluginOf(last), last.params, mu, tracing, last.cpu) = last.resp)
  /\ [][(TracePc' = TracePc) => (mu' = mu)]_vars

\* A request to an endpoint other than the two trace endpoints was served
\* while a capture was in its window, and the capture has since ended.
C10_Witness ==
  /\ last.handler \in OtherHandlers \ {"pprof.Trace"}
  /\ last.cap /\ ~Capturing /\ ~mu

\* s writes an integer: an optional sign and one or more digits.
Integer(s) ==
  LET body == IF s # <<>> /\ s[1] \in {"+", "-"} THEN Tail(s) ELSE s
  IN  body # <<>> /\ \A i \in 1..Len(body) : IsDigit(body[i])

\* s writes an integer other than zero.
NonzeroInteger(s) == Integer(s) /\ \E i \in 1..Len(s) : IsDigit(s[i]) /\ s[i] # "0"

\* C11: the headers of the named-profile endpoint are decided by whether the
\* name is a registered profile and by the value of `debug`: an unknown name
\* gives 404, text/plain and no Content-Disposition; a known name with `debug`
\* absent, empty or an integer 0 gives application/octet-stream and an
\* attachment disposition naming the profile; a known name with `debug` a
\* nonzero integer, of whatever size, gives text/plain and no
\* Content-Disposition; and a known name with any other `debug` gives one of
\* these two.
C11_HeadersByNameAndDebug ==
  last.handler = "pprof0" =>
    LET name  == Query(last.params, "name")
        debug == GetQuery(last.params, "debug")
        known == name \in Profiles
        r     == last.resp
        download == /\ r.status = 200 /\ r.ctype = "application/octet-stream"
                    /\ r.disp = <<"attachment; filename=", "\"">> \o name \o <<"\"">>
        text     == r.status = 200 /\ r.ctype = "text/plain; charset=utf-8" /\ r.disp = <<>>
    IN  /\ ~known =>
              r.status = 404 /\ r.ctype = "text/plain; charset=utf-8" /\ r.disp = <<>>
        /\ (known /\ (debug.v = <<>> \/ (Integer(debug.v) /\ ~NonzeroInteger(debug.v)))) => download
        /\ (known /\ NonzeroInteger(debug.v)) => text
        /\ known => (download \/ text)

\* The heap profile was asked for with debug=1 while a capture was in its
\* window, and came as text with no disposition.
C11_Witness ==
  /\ last.handler = "pprof0" /\ last.cap
  /\ last.params = {<<"name", <<"h","e","a","p">>>>, <<"debug", <<"1">>>>}
  /\ last.resp.ctype = TextPlain /\ last.resp.disp = <<>>

\* The unit index the byte count b calls for: the k of 0..3 with
\* b / 1024^k < 1024, and 3 from 1024^4 on.
UnitIndex(b) ==
  IF Len(b) <= 10 THEN 0 ELSE IF Len(b) <= 20 THEN 1 ELSE IF Len(b) <= 30 THEN 2 ELSE 3

\* The hundredths nearest to b / 1024^k: both neighbours when b / 1024^k lies
\* half way between two of them.
NearestHundredths(b, k) ==
  IF k = 0 THEN {Times100(b)}
  ELSE {Shr(Add(Times100(b), Shl(<<1>>, 10 * k - 1)), 10 * k),
        Shr(Add(Times100(b), [i \in 1..(10 * k - 1) |-> 1]), 10 * k)}

\* C12: a byte count b is rendered in the unit of index k in 0..3 with
\* b / 1024^k < 1024 (GB from 1024^4 on, B below 1024), and its numeric part
\* is b / 1024^k rounded to two decimals.
C12_LargestUnitTwoDecimals ==
  last.handler = "mem0" =>
    \E n \in NearestHundredths(totalAlloc, UnitIndex(totalAlloc)) :
      LET text == Sprintf(n, units[UnitIndex(totalAlloc) + 1])
      IN  last.resp.body \in
            {<<"TotalAlloc:  ">> \o text \o <<" (Cumulative total memory allocated on heap)">>,
             <<"TotalAlloc">> \o text}

\* C13: a trace-control request stops the runtime tracer only when the
\* recording that is active is the one this same request started: its
\* trace.Stop never ends a recording that another request started.
C13_StopsOnlyOwnRecording ==
  [][\A t \in Threads :
       (pc[t] = "sleep" /\ pc'[t] = "unlock" /\ IsEnabled(tracing) /\ ~IsEnabled(tracing'))
         => tracing = t]_vars

====
